---- MODULE Spec2Model ----
(***************************************************************************)
(* A model of LRUC::LRUCache (src/lrucache.h), one LRU shard made of a     *)
(* tbb::concurrent_hash_map and a doubly linked recency list under one     *)
(* mutex, and of LRUC::ScalableLRUCache (scale-lrucache.h), the dispatcher *)
(* that owns a vector of shards and routes each key to one of them.        *)
(*                                                                         *)
(* Every public operation is cut into its atomic steps: one step per       *)
(* concurrent_hash_map call (the map's accessor is held inside the step),  *)
(* one per acquisition of listMutex_, one per critical section, and one    *)
(* per access to the atomic current_size_.                                 *)
(***************************************************************************)
EXTENDS Integers, Sequences, FiniteSets, TLC

\* ---- bounds of the model ----
NumThreads == 2
NumKeys == 3       \* keys of a sequential run
NumConcKeys == 2   \* keys of a concurrent run
NumVals == 2
NumNodes == 5
MaxOps == 4        \* calls of a concurrent run
MaxSeqOps == 5     \* calls of a sequential run
MaxCapacity == 2
MaxShards == 2
MaxTotal == 9      \* total capacities handed to the dispatcher's constructor
MaxCtorShards == 4 \* shard counts handed to the dispatcher's constructor
MaxModuleOps == 2  \* calls on the cache of a run that goes through getSoftIpCache
MaxGets == 2       \* calls of getSoftIpCache per module

Threads == 1..NumThreads
Keys == 1..NumKeys
Vals == 1..NumVals
\* The heap addresses `new ListNode` can return.  An address that was
\* deleted can be handed out again.
Nodes == 1..NumNodes

VARIABLES
  cache_size_,    \* ScalableLRUCache::cache_size_
  shard_count_,   \* ScalableLRUCache::shard_count_
  shards_,        \* ScalableLRUCache::shards_: shards_[i + 1] is cache_size_ of shard i
  capRet,         \* the value the last call of capacity() returned, -1 before it
  recordPre,      \* this run keeps, during an erase, the state the erase started in
  init_soft_ip_flag,         \* the std::once_flag: "fresh", "running" or "done"
  soft_ip_cache_capacity,    \* singleton.cpp, zero-initialised
  soft_ip_cache_shardCount,  \* singleton.cpp, zero-initialised
  cache,          \* the static local of getSoftIpCache: its guard and the object's identity
  instances,      \* history: the number of SoftIpCache objects constructed
  mod,            \* mod[t]: where module t is in init_soft_ip_cache / getSoftIpCache
  hash,           \* hash[k]: hashObj.hash(k) >> shift, the 16 high bits of THash
  callKeys,       \* the keys the callers of this run pass
  maxCalls,       \* the number of calls this run makes
  hash_map_,      \* hash_map_[s][k]: the Value stored for k in shard s, or NoEntry
  list,           \* list[s]: the nodes linked between head_ and tail_, LRU first
  current_size_,  \* current_size_[s]: the atomic counter (see UGt)
  listMutex_,     \* listMutex_[s]: the thread that holds the mutex, 0 when free
  heap,           \* heap[n]: key_ of the live ListNode at address n, 0 when n is free
  th,             \* th[t]: the operation thread t is in, its locals and its last result
  crashed,        \* the process wrote through a garbage pointer
  dangling,       \* history: the places that hold a pointer to a node deleted since
  uaf,            \* history: some operation has dereferenced a deleted node
  nops,           \* history: number of calls made so far
  touch,          \* history: touch[k] = nops at the last successful insert/find of k
  eraseRet,       \* history: eraseRet[k] = sum of the values erase(k) returned
  eraseRemoved,   \* history: eraseRemoved[k] = map entries removed by erase(k) calls
  returned,       \* history: see InsertReturned
  live            \* history: see InsertCommitted

vars == <<cache_size_, shard_count_, shards_, capRet, recordPre,
          init_soft_ip_flag, soft_ip_cache_capacity, soft_ip_cache_shardCount,
          cache, instances, mod,
          hash, callKeys, maxCalls, hash_map_, list, current_size_,
          listMutex_, heap, th, crashed, dangling, uaf, nops, touch,
          eraseRet, eraseRemoved, returned, live>>

shared == <<hash_map_, list, current_size_, listMutex_, heap>>
\* what the calls on the cache leave alone
singleton == <<init_soft_ip_flag, soft_ip_cache_capacity, soft_ip_cache_shardCount,
               cache, instances, mod>>
config == <<cache_size_, shard_count_, shards_, capRet, recordPre, singleton,
            hash, callKeys, maxCalls>>

Shards == 0..(shard_count_ - 1)

NoEntry == [value_ |-> 0, listNode_ |-> 0]

\* ---- size_t arithmetic ----
\* current_size_ is a 64-bit unsigned counter.  Its value is kept as the
\* representative v of the residue class v mod 2^64 with -2^63 < v < 2^63: a
\* negative v stands for 2^64 + v, the value the counter has after it was
\* decremented below zero.  UGe and UGt are the unsigned comparisons on
\* these representatives.
UGt(a, b) == IF (a < 0) = (b < 0) THEN a > b ELSE a < 0
UGe(a, b) == a = b \/ UGt(a, b)

\* ---- ScalableLRUCache ----
\* (a variant of ShardCapacity that drops the remainder)
ShardCapacityNoRemainder(i) == cache_size_ \div shard_count_

\* capacity of shard i, as the constructor hands it to the shard
ShardCapacity(i) ==
  LET cap == cache_size_ \div shard_count_
      modular == cache_size_ % shard_count_
  IN IF i # 0 THEN cap ELSE cap + modular

\* index of the shard that serves key k
shard(k) == hash[k] % shard_count_

\* capacity(): the sum of shards_[i]->capacity() over the shards
capacity == LET Sum[i \in 0..Len(shards_)] ==
                  IF i = 0 THEN 0 ELSE Sum[i - 1] + shards_[i]
            IN Sum[Len(shards_)]

\* the vector of shards once the constructor has returned
Constructed == [i \in 1..shard_count_ |-> ShardCapacity(i - 1)]

\* ---- list primitives ----
InSeq(sq, n) == \E j \in 1..Len(sq) : sq[j] = n
Without(sq, n) == SelectSeq(sq, LAMBDA x : x # n)

\* ListNode::inList for a live node: prev_ is NullNodePtr exactly while the
\* node is linked in no list (constructor, unlink and append set it so)
inList(n) == \E s \in Shards : InSeq(list[s], n)

\* unlink(node): takes the node out of the list it is linked in
unlink(ls, n) == [s \in Shards |-> Without(ls[s], n)]

\* (a variant of append that links the node after head_)
appendAfterHead(ls, s, n) == [ls EXCEPT ![s] = <<n>> \o @]

\* append(node) of shard s: links the node before tail_
append(ls, s, n) == [ls EXCEPT ![s] = Append(@, n)]

\* (a variant of MapInsert that assigns to an element that exists)
MapInsertOrAssign(m, k, e) == [m EXCEPT ![k] = e]

\* hash_map_.insert(accessor, value) on the map m of one shard: a new
\* element for k, or the map as it was when k has an element
MapInsert(m, k, e) == IF m[k] # NoEntry THEN m ELSE [m EXCEPT ![k] = e]

\* (a variant of setValue that leaves value_ default-constructed)
setValueSkipped(e) == 0

\* ConstAccessor::setValue: the copy of the stored value kept in the handle
setValue(e) == e.value_

KeysInMap(s) == {k \in Keys : hash_map_[s][k] # NoEntry}
KeysInList(s) == {heap[list[s][j]] : j \in 1..Len(list[s])}

\* ---- threads ----
Idle == [pc |-> "idle", op |-> "none", key |-> 0, value |-> 0, node |-> 0,
         size |-> 0, popped |-> FALSE, tmpKey |-> 0, retpc |-> "idle",
         acc |-> FALSE, ret |-> -1, hval |-> 0, evicted |-> {}, oldest |-> 0,
         full |-> FALSE, expect |-> 0, expectLive |-> 0, pre |-> <<>>,
         rivals |-> 0]

\* the call returns r (1 for true, 0 for false, 2 for an exception that
\* leaves the call); the locals die
Return(rec, r) == [rec EXCEPT !.pc = "idle", !.ret = r, !.node = 0, !.size = 0,
                              !.retpc = "idle", !.acc = FALSE, !.pre = <<>>,
                              !.rivals = 0]

Quiescent == \A t \in Threads : th[t].pc = "idle"

\* the places that hold a pointer to node n: found_node of a find or an
\* erase in flight, and listNode_ of the map entries
Holders(n) ==
  {<<"th", u, 0>> : u \in {x \in Threads : th[x].node = n /\ th[x].op \in {"find", "erase"}
                                           /\ th[x].pc # "idle"}}
  \cup {<<"map", hk[1], hk[2]>> :
          hk \in {x \in Shards \X Keys : hash_map_[x[1]][x[2]].listNode_ = n}}

TypeOK ==
  /\ shard_count_ \in 1..MaxShards
  /\ cache_size_ \in 0..(MaxCapacity * MaxShards)
  /\ \A s \in Shards : listMutex_[s] \in 0..NumThreads
  /\ \A n \in Nodes : heap[n] \in 0..NumKeys
  /\ nops \in 0..maxCalls
  /\ crashed \in BOOLEAN /\ uaf \in BOOLEAN

\* a module that is in neither singleton function; ref is the reference its
\* last getSoftIpCache returned
ModIdle == [pc |-> "idle", ref |-> 0, capacity |-> 0, shardCnt |-> 0, gets |-> 0,
            inits |-> 0]

InitShared ==
  /\ init_soft_ip_flag = "fresh"
  /\ soft_ip_cache_capacity = 0 /\ soft_ip_cache_shardCount = 0
  /\ cache = [guard |-> "none", id |-> 0]
  /\ instances = 0
  /\ mod = [t \in Threads |-> ModIdle]
  /\ hash_map_ = [s \in Shards |-> [k \in Keys |-> NoEntry]]
  /\ list = [s \in Shards |-> <<>>]
  /\ current_size_ = [s \in Shards |-> 0]
  /\ listMutex_ = [s \in Shards |-> 0]
  /\ heap = [n \in Nodes |-> 0]
  /\ th = [t \in Threads |-> Idle]
  /\ crashed = FALSE
  /\ dangling = {}
  /\ uaf = FALSE
  /\ nops = 0
  /\ touch = [k \in Keys |-> 0]
  /\ eraseRet = [k \in Keys |-> 0]
  /\ eraseRemoved = [k \in Keys |-> 0]
  /\ returned = [k \in Keys |-> 0]
  /\ live = [k \in Keys |-> 0]

\* one shard of capacity 1..MaxCapacity, used by several threads
Init ==
  /\ shard_count_ = 1
  /\ cache_size_ \in 1..MaxCapacity
  /\ shards_ = Constructed /\ capRet = -1 /\ recordPre = FALSE
  /\ hash = [k \in Keys |-> 0]
  /\ callKeys = 1..NumConcKeys
  /\ maxCalls = MaxOps
  /\ InitShared

\* a dispatcher with 1..MaxShards shards, used by one thread
InitSeq ==
  /\ shard_count_ \in 1..MaxShards
  /\ cache_size_ \in 1..MaxCapacity
  /\ shards_ = Constructed /\ capRet = -1 /\ recordPre = FALSE
  /\ hash \in [Keys -> 0..(MaxShards - 1)]
  /\ callKeys = Keys
  /\ maxCalls = MaxSeqOps
  /\ InitShared

\* ---- history of the calls ----
\* the key of shard s whose last successful insert or find is the oldest
LruKey(s) ==
  IF KeysInMap(s) = {} THEN 0
  ELSE CHOOSE k \in KeysInMap(s) : \A j \in KeysInMap(s) : touch[k] <= touch[j]

InErase(u, k) == th[u].op = "erase" /\ th[u].pc # "idle" /\ th[u].key = k
InPopFront(u, s) == th[u].pc \in {"pf_cs", "pf_find", "pf_erase"} /\ shard(th[u].key) = s
EvictingKey(u, s, k) == /\ th[u].pc \in {"pf_find", "pf_erase"}
                        /\ shard(th[u].key) = s
                        /\ th[u].tmpKey = k

\* returned[k] = v: an insert(k, v) has returned true, and since it returned
\* no erase(k) and no popFront of k's shard has run or been in progress
InsertReturned(t) ==
  returned' =
    IF th[t].op = "insert" /\ th'[t].pc = "idle" /\ th'[t].ret = 1
    THEN [returned EXCEPT ![th[t].key] =
            IF \E u \in Threads \ {t} :
                 InErase(u, th[t].key) \/ InPopFront(u, shard(th[t].key))
            THEN 0 ELSE th[t].value]
    ELSE returned

\* live[k] = v: an insert has added (k, v) to the map while no erase(k) and no
\* eviction of k was in progress, and none has begun since
InsertCommitted(t, k, v) ==
  [live EXCEPT ![k] = IF \E u \in Threads \ {t} :
                           InErase(u, k) \/ EvictingKey(u, shard(k), k)
                      THEN 0 ELSE v]

\* hash_map_ of shard s lost its element for k: a const_accessor that another
\* thread's popFront holds on that element no longer finds it in its bucket
DropAccessors(T, s, k) ==
  [u \in Threads |->
     IF T[u].pc = "pf_erase" /\ shard(T[u].key) = s /\ T[u].tmpKey = k
     THEN [T[u] EXCEPT !.acc = FALSE] ELSE T[u]]

\* th[u].rivals of an insert(k, .) in flight: the calls insert(k, .) of other
\* threads that have returned false since it added k to the map, or -1 once
\* it has shared its time with a call of another kind.  Thread t begins a
\* call on key k here; lost says that the call is an insert that found k.
Rivals(T, t, k, lost) ==
  [u \in Threads |->
     IF u # t /\ T[u].op = "insert" /\ T[u].pc # "idle"
     THEN [T[u] EXCEPT !.rivals = IF lost /\ T[u].key = k /\ @ >= 0
                                  THEN @ + 1 ELSE -1]
     ELSE T[u]]

\* ---- LRUCache::insert ----
\* Some place still holds a pointer to the deleted node at address n.
Remembered(n) ==
  \E h \in dangling : \/ h[1] = "th" /\ th[h[2]].node = n
                      \/ h[1] = "map" /\ hash_map_[h[2]][h[3]].listNode_ = n

\* new ListNode can return address n: any free address that a stale pointer
\* still refers to, or an address nothing refers to.  The latter are all
\* alike, so the lowest stands for them.
NewNode(n) ==
  /\ heap[n] = 0
  /\ \/ Remembered(n)
     \/ \A m \in Nodes : (heap[m] = 0 /\ m < n) => Remembered(m)

\* new ListNode(key), then hash_map_.insert(hashAccessor, hashMapValue); the
\* accessor is released at the end of the block
InsertMap(t, k, v) ==
  /\ ~crashed /\ th[t].pc = "idle" /\ nops < maxCalls
  /\ nops' = nops + 1
  /\ \E n \in Nodes :
       /\ NewNode(n)
       /\ LET s == shard(k)
              call == [Idle EXCEPT !.op = "insert", !.key = k, !.value = v]
          IN IF hash_map_[s][k] # NoEntry
             THEN \* delete node; return false
                  /\ hash_map_' = [hash_map_ EXCEPT ![s] =
                                     MapInsert(@, k, [value_ |-> v, listNode_ |-> n])]
                  /\ th' = [Rivals(th, t, k, TRUE) EXCEPT ![t] = Return(call, 0)]
                  /\ UNCHANGED <<heap, live, touch>>
             ELSE /\ hash_map_' = [hash_map_ EXCEPT ![s] =
                                     MapInsert(@, k, [value_ |-> v, listNode_ |-> n])]
                  /\ heap' = [heap EXCEPT ![n] = k]
                  /\ th' = [Rivals(th, t, k, FALSE) EXCEPT ![t] =
                              [call EXCEPT !.pc = "ins_load", !.node = n,
                                           !.rivals =
                                             IF \A u \in Threads \ {t} :
                                                  th[u].pc = "idle"
                                             THEN 0 ELSE -1,
                                           !.oldest = LruKey(s),
                                           !.full = Cardinality(KeysInMap(s))
                                                      >= ShardCapacity(s)]]
                  /\ live' = InsertCommitted(t, k, v)
                  /\ touch' = [touch EXCEPT ![k] = nops']
  /\ UNCHANGED <<config, list, current_size_, listMutex_, crashed, dangling, uaf,
                 eraseRet, eraseRemoved, returned>>

\* size_t size = current_size_.load(); if (size >= cache_size_) popFront()
InsertLoadSize(t) ==
  /\ ~crashed /\ th[t].pc = "ins_load"
  /\ LET s == shard(th[t].key)
         size == current_size_[s]
     IN th' = [th EXCEPT ![t] =
                 IF UGe(size, ShardCapacity(s))
                 THEN [@ EXCEPT !.size = size, !.popped = TRUE, !.pc = "pf_lock",
                                !.retpc = "ins_lock"]
                 ELSE [@ EXCEPT !.size = size, !.pc = "ins_lock"]]
  /\ UNCHANGED <<config, shared, crashed, dangling, uaf, nops, touch,
                 eraseRet, eraseRemoved, returned, live>>

\* ---- LRUCache::popFront ----
\* popFront returns to its caller: to insert before the append, or to the
\* end of insert, which returns true
PopFrontReturn(rec) ==
  IF rec.retpc = "ins_lock"
  THEN [rec EXCEPT !.pc = "ins_lock", !.retpc = "idle", !.acc = FALSE]
  ELSE Return(rec, 1)

\* std::unique_lock<ListMutex> lock(listMutex_)
PopFrontLock(t) ==
  /\ ~crashed /\ th[t].pc = "pf_lock"
  /\ LET s == shard(th[t].key)
     IN /\ listMutex_[s] = 0
        /\ listMutex_' = [listMutex_ EXCEPT ![s] = t]
        /\ returned' = [k \in Keys |-> IF shard(k) = s THEN 0 ELSE returned[k]]
  /\ th' = [th EXCEPT ![t].pc = "pf_cs"]
  /\ UNCHANGED <<config, hash_map_, list, current_size_, heap, crashed, dangling, uaf,
                 nops, touch, eraseRet, eraseRemoved, live>>

\* candidate = head_.next_; unlink, copy the key, delete; the lock is released
PopFrontUnlink(t) ==
  /\ ~crashed /\ th[t].pc = "pf_cs"
  /\ LET s == shard(th[t].key)
     IN /\ listMutex_' = [listMutex_ EXCEPT ![s] = 0]
        /\ IF list[s] = <<>>
           THEN /\ th' = [th EXCEPT ![t] = PopFrontReturn(@)]
                /\ UNCHANGED <<list, heap, dangling, live>>
           ELSE LET candidate == Head(list[s])
                IN /\ list' = unlink(list, candidate)
                   /\ th' = [th EXCEPT ![t] = [@ EXCEPT !.tmpKey = heap[candidate],
                                                        !.pc = "pf_find"]]
                   /\ heap' = [heap EXCEPT ![candidate] = 0]
                   /\ dangling' = dangling \cup Holders(candidate)
                   /\ live' = [live EXCEPT ![heap[candidate]] = 0]
  /\ InsertReturned(t)
  /\ UNCHANGED <<config, hash_map_, current_size_, crashed, uaf, nops, touch,
                 eraseRet, eraseRemoved>>

\* hash_map_.find(constHashAccessor, tmpKey)
PopFrontFind(t) ==
  /\ ~crashed /\ th[t].pc = "pf_find"
  /\ LET s == shard(th[t].key)
     IN th' = [th EXCEPT ![t] =
                 IF hash_map_[s][th[t].tmpKey] = NoEntry
                 THEN PopFrontReturn(@)
                 ELSE [@ EXCEPT !.acc = TRUE, !.pc = "pf_erase"]]
  /\ InsertReturned(t)
  /\ UNCHANGED <<config, shared, crashed, dangling, uaf, nops, touch,
                 eraseRet, eraseRemoved, live>>

\* hash_map_.erase(constHashAccessor): removes the element the accessor
\* points to, unless another thread has removed that element first
PopFrontErase(t) ==
  /\ ~crashed /\ th[t].pc = "pf_erase"
  /\ LET s == shard(th[t].key)
         k == th[t].tmpKey
     IN IF th[t].acc
        THEN /\ hash_map_' = [hash_map_ EXCEPT ![s][k] = NoEntry]
             /\ dangling' = dangling \ {<<"map", s, k>>}
             /\ th' = [DropAccessors(th, s, k) EXCEPT ![t] =
                         PopFrontReturn([th[t] EXCEPT !.evicted = @ \cup {k}])]
        ELSE /\ th' = [th EXCEPT ![t] = PopFrontReturn(@)]
             /\ UNCHANGED <<hash_map_, dangling>>
  /\ InsertReturned(t)
  /\ UNCHANGED <<config, list, current_size_, listMutex_, heap, crashed, uaf, nops,
                 touch, eraseRet, eraseRemoved, live>>

\* ---- LRUCache::insert, after the eviction ----
\* std::unique_lock<ListMutex> lock(listMutex_)
InsertLock(t) ==
  /\ ~crashed /\ th[t].pc = "ins_lock"
  /\ LET s == shard(th[t].key)
     IN /\ listMutex_[s] = 0
        /\ listMutex_' = [listMutex_ EXCEPT ![s] = t]
  /\ th' = [th EXCEPT ![t].pc = "ins_append"]
  /\ UNCHANGED <<config, hash_map_, list, current_size_, heap, crashed, dangling, uaf,
                 nops, touch, eraseRet, eraseRemoved, returned, live>>

\* the test `size > cache_size_` and what follows it
InsertCheck(rec, s) ==
  IF UGt(rec.size, ShardCapacity(s)) THEN [rec EXCEPT !.pc = "ins_cas"]
  ELSE Return(rec, 1)

\* append(node); the lock is released.  After an eviction the counter is
\* left alone and the test on `size` uses the value loaded before
InsertAppend(t) ==
  /\ ~crashed /\ th[t].pc = "ins_append"
  /\ LET s == shard(th[t].key)
     IN /\ list' = append(list, s, th[t].node)
        /\ listMutex_' = [listMutex_ EXCEPT ![s] = 0]
        /\ th' = [th EXCEPT ![t] = IF @.popped THEN InsertCheck(@, s)
                                   ELSE [@ EXCEPT !.pc = "ins_incr"]]
  /\ InsertReturned(t)
  /\ UNCHANGED <<config, hash_map_, current_size_, heap, crashed, dangling, uaf,
                 nops, touch, eraseRet, eraseRemoved, live>>

\* if (!popped) size = current_size_++;
InsertIncrement(t) ==
  /\ ~crashed /\ th[t].pc = "ins_incr"
  /\ LET s == shard(th[t].key)
     IN /\ current_size_' = [current_size_ EXCEPT ![s] = @ + 1]
        /\ th' = [th EXCEPT ![t] =
                    InsertCheck([@ EXCEPT !.size = current_size_[s]], s)]
  /\ InsertReturned(t)
  /\ UNCHANGED <<config, hash_map_, list, listMutex_, heap, crashed, dangling, uaf,
                 nops, touch, eraseRet, eraseRemoved, live>>

\* if (current_size_.compare_exchange_strong(size, size - 1)) popFront();
InsertCAS(t) ==
  /\ ~crashed /\ th[t].pc = "ins_cas"
  /\ LET s == shard(th[t].key)
     IN IF current_size_[s] = th[t].size
        THEN /\ current_size_' = [current_size_ EXCEPT ![s] = th[t].size - 1]
             /\ th' = [th EXCEPT ![t] = [@ EXCEPT !.pc = "pf_lock", !.retpc = "ins_ret"]]
        ELSE /\ th' = [th EXCEPT ![t] = Return(@, 1)]
             /\ UNCHANGED current_size_
  /\ InsertReturned(t)
  /\ UNCHANGED <<config, hash_map_, list, listMutex_, heap, crashed, dangling, uaf,
                 nops, touch, eraseRet, eraseRemoved, live>>

\* ---- LRUCache::find ----
\* hash_map_.find(hashAccessor, key); on a hit setValue() copies the value,
\* found_node is read, and the accessor is released
FindMap(t, k) ==
  /\ ~crashed /\ th[t].pc = "idle" /\ nops < maxCalls
  /\ nops' = nops + 1
  /\ LET s == shard(k)
         call == [Idle EXCEPT !.op = "find", !.key = k, !.expect = returned[k],
                              !.expectLive = live[k]]
     IN IF hash_map_[s][k] = NoEntry
        THEN /\ th' = [Rivals(th, t, k, FALSE) EXCEPT ![t] = Return(call, 0)]
             /\ UNCHANGED <<dangling, touch>>
        ELSE /\ th' = [Rivals(th, t, k, FALSE) EXCEPT ![t] =
                         [call EXCEPT !.pc = "find_try",
                                      !.hval = setValue(hash_map_[s][k]),
                                      !.node = hash_map_[s][k].listNode_]]
             /\ dangling' = IF <<"map", s, k>> \in dangling
                            THEN dangling \cup {<<"th", t, 0>>} ELSE dangling
             /\ touch' = [touch EXCEPT ![k] = nops']
  /\ UNCHANGED <<config, shared, crashed, uaf, eraseRet, eraseRemoved, returned, live>>

\* (a variant of FindTryLock that waits for the mutex as insert and erase do)
FindLock(t) ==
  /\ ~crashed /\ th[t].pc = "find_try"
  /\ LET s == shard(th[t].key)
     IN /\ listMutex_[s] = 0
        /\ listMutex_' = [listMutex_ EXCEPT ![s] = t]
  /\ th' = [th EXCEPT ![t].pc = "find_cs"]
  /\ UNCHANGED <<config, hash_map_, list, current_size_, heap, crashed, dangling, uaf,
                 nops, touch, eraseRet, eraseRemoved, returned, live>>

\* std::unique_lock<ListMutex> lock{listMutex_, std::try_to_lock}; without
\* the lock find returns true at once
FindTryLock(t) ==
  /\ ~crashed /\ th[t].pc = "find_try"
  /\ LET s == shard(th[t].key)
     IN IF listMutex_[s] = 0
        THEN /\ listMutex_' = [listMutex_ EXCEPT ![s] = t]
             /\ th' = [th EXCEPT ![t].pc = "find_cs"]
             /\ UNCHANGED dangling
        ELSE /\ th' = [th EXCEPT ![t] = Return(@, 1)]
             /\ dangling' = dangling \ {<<"th", t, 0>>}
             /\ UNCHANGED listMutex_
  /\ UNCHANGED <<config, hash_map_, list, current_size_, heap, crashed, uaf, nops,
                 touch, eraseRet, eraseRemoved, returned, live>>

\* if (found_node->inList()) { unlink(found_node); append(found_node); }
\* found_node may have been deleted since it was read from the map.  Then
\* the read of prev_ is a read of freed memory: the address holds another
\* live node if it was handed out again, the bytes unlink left there
\* (NullNodePtr), or garbage, and unlink through garbage ends the process.
FindPromote(t) ==
  /\ ~crashed /\ th[t].pc = "find_cs"
  /\ LET s == shard(th[t].key)
         found_node == th[t].node
         stale == <<"th", t, 0>> \in dangling
     IN /\ uaf' = (uaf \/ stale)
        /\ \E garbage \in BOOLEAN :
             IF stale /\ heap[found_node] = 0 /\ garbage
             THEN /\ crashed' = TRUE
                  /\ UNCHANGED <<list, listMutex_, th, dangling>>
             ELSE /\ list' = IF inList(found_node)
                             THEN append(unlink(list, found_node), s, found_node)
                             ELSE list
                  /\ listMutex_' = [listMutex_ EXCEPT ![s] = 0]
                  /\ th' = [th EXCEPT ![t] = Return(@, 1)]
                  /\ dangling' = dangling \ {<<"th", t, 0>>}
                  /\ UNCHANGED crashed
  /\ UNCHANGED <<config, hash_map_, current_size_, heap, nops, touch,
                 eraseRet, eraseRemoved, returned, live>>

\* ---- LRUCache::erase ----
\* (a variant of EraseFind that counts the key it did not find)
EraseFindCounts(t, k) ==
  /\ ~crashed /\ th[t].pc = "idle" /\ nops < maxCalls
  /\ nops' = nops + 1
  /\ LET s == shard(k)
         call == [Idle EXCEPT !.op = "erase", !.key = k]
     IN IF hash_map_[s][k] = NoEntry
        THEN /\ th' = [Rivals(th, t, k, FALSE) EXCEPT ![t] = Return(call, 0)]
             /\ current_size_' = [current_size_ EXCEPT ![s] = @ - 1]
             /\ UNCHANGED dangling
        ELSE /\ th' = [Rivals(th, t, k, FALSE) EXCEPT ![t] =
                         [call EXCEPT !.pc = "erase_map",
                                      !.node = hash_map_[s][k].listNode_]]
             /\ dangling' = IF <<"map", s, k>> \in dangling
                            THEN dangling \cup {<<"th", t, 0>>} ELSE dangling
             /\ UNCHANGED current_size_
  /\ returned' = [returned EXCEPT ![k] = 0]
  /\ live' = [live EXCEPT ![k] = 0]
  /\ UNCHANGED <<config, hash_map_, list, listMutex_, heap, crashed, uaf, touch,
                 eraseRet, eraseRemoved>>

\* hash_map_.find(hashAccessor, key); found_node is read and the accessor
\* released
EraseFind(t, k) ==
  /\ ~crashed /\ th[t].pc = "idle" /\ nops < maxCalls
  /\ nops' = nops + 1
  /\ LET s == shard(k)
         call == [Idle EXCEPT !.op = "erase", !.key = k]
     IN IF hash_map_[s][k] = NoEntry
        THEN /\ th' = [Rivals(th, t, k, FALSE) EXCEPT ![t] = Return(call, 0)]
             /\ UNCHANGED dangling
        ELSE /\ th' = [Rivals(th, t, k, FALSE) EXCEPT ![t] =
                         [call EXCEPT !.pc = "erase_map",
                                      !.node = hash_map_[s][k].listNode_,
                                      !.pre = IF recordPre
                                              THEN <<hash_map_, list, current_size_>>
                                              ELSE <<>>]]
             /\ dangling' = IF <<"map", s, k>> \in dangling
                            THEN dangling \cup {<<"th", t, 0>>} ELSE dangling
  /\ returned' = [returned EXCEPT ![k] = 0]
  /\ live' = [live EXCEPT ![k] = 0]
  /\ UNCHANGED <<config, shared, crashed, uaf, touch, eraseRet, eraseRemoved>>

\* hash_map_.erase(key): removes whatever element the map holds for the key
EraseMap(t) ==
  /\ ~crashed /\ th[t].pc = "erase_map"
  /\ LET k == th[t].key
         s == shard(k)
     IN /\ hash_map_' = [hash_map_ EXCEPT ![s][k] = NoEntry]
        /\ dangling' = dangling \ {<<"map", s, k>>}
        /\ eraseRemoved' = [eraseRemoved EXCEPT
                              ![k] = IF hash_map_[s][k] # NoEntry THEN @ + 1 ELSE @]
        /\ th' = [DropAccessors(th, s, k) EXCEPT ![t] = [th[t] EXCEPT !.pc = "erase_lock"]]
  /\ UNCHANGED <<config, list, current_size_, listMutex_, heap, crashed, uaf, nops,
                 touch, eraseRet, returned, live>>

\* std::unique_lock<ListMutex> lock(listMutex_)
EraseLock(t) ==
  /\ ~crashed /\ th[t].pc = "erase_lock"
  /\ LET s == shard(th[t].key)
     IN /\ listMutex_[s] = 0
        /\ listMutex_' = [listMutex_ EXCEPT ![s] = t]
  /\ th' = [th EXCEPT ![t].pc = "erase_cs"]
  /\ UNCHANGED <<config, hash_map_, list, current_size_, heap, crashed, dangling, uaf,
                 nops, touch, eraseRet, eraseRemoved, returned, live>>

\* if (found_node->inList()) { unlink(found_node); delete found_node; }
\* with the same read of a node that may have been deleted as in find
EraseUnlink(t) ==
  /\ ~crashed /\ th[t].pc = "erase_cs"
  /\ LET s == shard(th[t].key)
         found_node == th[t].node
         stale == <<"th", t, 0>> \in dangling
     IN /\ uaf' = (uaf \/ stale)
        /\ \E garbage \in BOOLEAN :
             IF stale /\ heap[found_node] = 0 /\ garbage
             THEN /\ crashed' = TRUE
                  /\ UNCHANGED <<list, listMutex_, heap, th, dangling>>
             ELSE /\ IF inList(found_node)
                     THEN /\ list' = unlink(list, found_node)
                          /\ heap' = [heap EXCEPT ![found_node] = 0]
                          /\ dangling' = (dangling \cup Holders(found_node))
                                           \ {<<"th", t, 0>>}
                     ELSE /\ dangling' = dangling \ {<<"th", t, 0>>}
                          /\ UNCHANGED <<list, heap>>
                  /\ listMutex_' = [listMutex_ EXCEPT ![s] = 0]
                  /\ th' = [th EXCEPT ![t] = [@ EXCEPT !.pc = "erase_decr", !.node = 0]]
                  /\ UNCHANGED crashed
  /\ UNCHANGED <<config, hash_map_, current_size_, nops, touch,
                 eraseRet, eraseRemoved, returned, live>>

\* current_size_--; return 1;
EraseDecrement(t) ==
  /\ ~crashed /\ th[t].pc = "erase_decr"
  /\ LET s == shard(th[t].key)
     IN current_size_' = [current_size_ EXCEPT ![s] = @ - 1]
  /\ th' = [th EXCEPT ![t] = Return(@, 1)]
  /\ eraseRet' = [eraseRet EXCEPT ![th[t].key] = @ + 1]
  /\ UNCHANGED <<config, hash_map_, list, listMutex_, heap, crashed, dangling, uaf,
                 nops, touch, eraseRemoved, returned, live>>

\* ---- the threads ----
Step(t) ==
  \/ \E k \in callKeys, v \in Vals : InsertMap(t, k, v)
  \/ InsertLoadSize(t)
  \/ PopFrontLock(t)
  \/ PopFrontUnlink(t)
  \/ PopFrontFind(t)
  \/ PopFrontErase(t)
  \/ InsertLock(t)
  \/ InsertAppend(t)
  \/ InsertIncrement(t)
  \/ InsertCAS(t)
  \/ \E k \in callKeys : FindMap(t, k)
  \/ FindTryLock(t)
  \/ FindPromote(t)
  \/ \E k \in callKeys : EraseFind(t, k)
  \/ EraseMap(t)
  \/ EraseLock(t)
  \/ EraseUnlink(t)
  \/ EraseDecrement(t)

\* the steps by which thread t goes on with the call it is in
Continue(t) ==
  \/ InsertLoadSize(t) \/ PopFrontLock(t) \/ PopFrontUnlink(t) \/ PopFrontFind(t)
  \/ PopFrontErase(t) \/ InsertLock(t) \/ InsertAppend(t) \/ InsertIncrement(t)
  \/ InsertCAS(t) \/ FindTryLock(t) \/ FindPromote(t) \/ EraseMap(t) \/ EraseLock(t)
  \/ EraseUnlink(t) \/ EraseDecrement(t)

Next == \E t \in Threads : Step(t)

Spec == Init /\ [][Next]_vars

\* a dispatcher with MaxShards shards, used by several threads
InitShards ==
  /\ shard_count_ = MaxShards
  /\ cache_size_ \in MaxShards..(MaxShards + 1)
  /\ shards_ = Constructed /\ capRet = -1 /\ recordPre = FALSE
  /\ callKeys = 1..NumConcKeys
  /\ hash \in {h \in [Keys -> 0..(MaxShards - 1)] :
                 h[1] = 0 /\ \A k \in Keys \ (1..NumConcKeys) : h[k] = 0}
  /\ maxCalls = MaxOps
  /\ InitShared

SpecShards == InitShards /\ [][Next]_vars

\* the calls of a single thread, one after the other
NextSeq == Step(1)

SpecSeq == InitSeq /\ [][NextSeq]_vars

\* ---- allocation failure in insert, and clear ----
\* (a variant of InsertThrow in which the map keeps the element whose
\* insertion threw)
InsertThrowAfterInsert(t, k, v) ==
  /\ ~crashed /\ th[t].pc = "idle" /\ nops < maxCalls
  /\ nops' = nops + 1
  /\ hash_map_[shard(k)][k] = NoEntry
  /\ \E n \in Nodes :
       /\ NewNode(n)
       /\ heap' = [heap EXCEPT ![n] = k]
       /\ hash_map_' = [hash_map_ EXCEPT ![shard(k)] =
                          MapInsert(@, k, [value_ |-> v, listNode_ |-> n])]
  /\ th' = [th EXCEPT ![t] = Return([Idle EXCEPT !.op = "insert", !.key = k,
                                                 !.value = v], 2)]
  /\ UNCHANGED <<config, list, current_size_, listMutex_, crashed, dangling, uaf,
                 touch, eraseRet, eraseRemoved, returned, live>>

\* insert(key, value) in which an allocation fails: `new ListNode(key)`
\* throws std::bad_alloc before anything was touched, or hash_map_.insert
\* throws when it allocates the element of a key that is absent; the map is
\* then as it was (the container's guarantee the class comment quotes).
\* insert has no handler: the exception leaves the call, and in the second
\* case the node, which only `delete node` would free, stays allocated.
InsertThrow(t, k, v) ==
  /\ ~crashed /\ th[t].pc = "idle" /\ nops < maxCalls
  /\ nops' = nops + 1
  /\ \E inMap \in BOOLEAN :
       IF inMap
       THEN /\ hash_map_[shard(k)][k] = NoEntry
            /\ \E n \in Nodes : NewNode(n) /\ heap' = [heap EXCEPT ![n] = k]
       ELSE UNCHANGED heap
  /\ th' = [th EXCEPT ![t] = Return([Idle EXCEPT !.op = "insert", !.key = k,
                                                 !.value = v], 2)]
  /\ UNCHANGED <<config, hash_map_, list, current_size_, listMutex_, crashed,
                 dangling, uaf, touch, eraseRet, eraseRemoved, returned, live>>

\* (a variant of Clear that clears the maps only)
ClearMapOnly(t) ==
  /\ ~crashed /\ Quiescent /\ nops < maxCalls
  /\ nops' = nops + 1
  /\ hash_map_' = [s \in Shards |-> [k \in Keys |-> NoEntry]]
  /\ dangling' = {h \in dangling : h[1] # "map"}
  /\ th' = [th EXCEPT ![t] = Return([Idle EXCEPT !.op = "clear"], 1)]
  /\ returned' = [k \in Keys |-> 0]
  /\ live' = [k \in Keys |-> 0]
  /\ UNCHANGED <<config, list, current_size_, heap, listMutex_, crashed, uaf, touch,
                 eraseRet, eraseRemoved>>

\* ScalableLRUCache::clear: LRUCache::clear on every shard in turn, which is
\* hash_map_.clear(), delete of every node from head_.next_ to tail_, head_
\* and tail_ linked to each other, current_size_ = 0.  clear is not
\* thread-safe: it is called while no other call runs.
Clear(t) ==
  /\ ~crashed /\ Quiescent /\ nops < maxCalls
  /\ nops' = nops + 1
  /\ hash_map_' = [s \in Shards |-> [k \in Keys |-> NoEntry]]
  /\ heap' = [n \in Nodes |-> IF inList(n) THEN 0 ELSE heap[n]]
  /\ list' = [s \in Shards |-> <<>>]
  /\ current_size_' = [s \in Shards |-> 0]
  /\ dangling' = {h \in dangling : h[1] # "map"}
  /\ th' = [th EXCEPT ![t] = Return([Idle EXCEPT !.op = "clear"], 1)]
  /\ returned' = [k \in Keys |-> 0]
  /\ live' = [k \in Keys |-> 0]
  /\ UNCHANGED <<config, listMutex_, crashed, uaf, touch, eraseRet, eraseRemoved>>

\* a dispatcher used by one thread, whose calls include a clear and inserts
\* that run out of memory
InitApi ==
  /\ shard_count_ \in 1..MaxShards
  /\ cache_size_ \in 1..MaxCapacity
  /\ shards_ = Constructed /\ capRet = -1 /\ recordPre = TRUE
  /\ hash \in [Keys -> 0..(MaxShards - 1)]
  /\ callKeys = Keys
  /\ maxCalls = MaxOps
  /\ InitShared

NextApi ==
  \/ Step(1)
  \/ \E k \in callKeys, v \in Vals : InsertThrow(1, k, v)
  \/ Clear(1)

SpecApi == InitApi /\ [][NextApi]_vars

\* ---- init_soft_ip_cache and getSoftIpCache ----
\* The modules of one process (share1, share2) each run on a thread.  No
\* dispatcher exists before the first getSoftIpCache.
InitSingleton ==
  /\ shard_count_ = 0 /\ cache_size_ = 0
  /\ shards_ = <<>> /\ capRet = -1 /\ recordPre = FALSE
  /\ callKeys = 1..NumConcKeys
  /\ hash = [k \in Keys |-> (k - 1) % MaxShards]
  /\ maxCalls = MaxModuleOps
  /\ InitShared

\* what the singleton functions leave alone, but for the dispatcher itself
SingletonFrame ==
  UNCHANGED <<recordPre, capRet, hash, callKeys, maxCalls, listMutex_, heap, th,
              dangling, uaf, nops, touch, eraseRet, eraseRemoved, returned, live>>
NoDispatcherChange ==
  UNCHANGED <<cache_size_, shard_count_, shards_, hash_map_, list, current_size_>>

\* init_soft_ip_cache(capacity, shardCnt) enters std::call_once: the first
\* caller runs the lambda, a caller that finds the flag set returns, and a
\* caller that arrives while the lambda runs waits
InitEnter(t, cap, shardCnt) ==
  /\ ~crashed /\ th[t].pc = "idle" /\ mod[t].pc = "idle" /\ mod[t].inits = 0
  /\ init_soft_ip_flag # "running"
  /\ IF init_soft_ip_flag = "fresh"
     THEN /\ init_soft_ip_flag' = "running"
          /\ mod' = [mod EXCEPT ![t] = [@ EXCEPT !.pc = "init_capacity",
                                                  !.capacity = cap,
                                                  !.shardCnt = shardCnt, !.inits = 1]]
     ELSE /\ mod' = [mod EXCEPT ![t].inits = 1]
          /\ UNCHANGED init_soft_ip_flag
  /\ UNCHANGED <<soft_ip_cache_capacity, soft_ip_cache_shardCount, cache, instances,
                 crashed>>
  /\ SingletonFrame /\ NoDispatcherChange

\* soft_ip_cache_capacity = capacity
InitWriteCapacity(t) ==
  /\ ~crashed /\ mod[t].pc = "init_capacity"
  /\ soft_ip_cache_capacity' = mod[t].capacity
  /\ mod' = [mod EXCEPT ![t].pc = "init_count"]
  /\ UNCHANGED <<init_soft_ip_flag, soft_ip_cache_shardCount, cache, instances, crashed>>
  /\ SingletonFrame /\ NoDispatcherChange

\* soft_ip_cache_shardCount = shardCnt; the lambda returns and the flag is set
InitWriteCount(t) ==
  /\ ~crashed /\ mod[t].pc = "init_count"
  /\ soft_ip_cache_shardCount' = mod[t].shardCnt
  /\ init_soft_ip_flag' = "done"
  /\ mod' = [mod EXCEPT ![t] = [@ EXCEPT !.pc = "idle", !.capacity = 0, !.shardCnt = 0]]
  /\ UNCHANGED <<soft_ip_cache_capacity, cache, instances, crashed>>
  /\ SingletonFrame /\ NoDispatcherChange

\* (a variant of GetEnter in which every call constructs its own object)
GetEnterNotStatic(t) ==
  /\ ~crashed /\ th[t].pc = "idle" /\ mod[t].pc = "idle" /\ mod[t].gets < MaxGets
  /\ cache.guard # "constructing"
  /\ cache' = [cache EXCEPT !.guard = "constructing"]
  /\ mod' = [mod EXCEPT ![t] = [@ EXCEPT !.pc = "get_capacity", !.gets = @ + 1]]
  /\ UNCHANGED <<init_soft_ip_flag, soft_ip_cache_capacity, soft_ip_cache_shardCount,
                 instances, crashed>>
  /\ SingletonFrame /\ NoDispatcherChange

\* getSoftIpCache() reaches `static sentinel::SoftIpCache cache{...}`: the
\* first caller starts the initialisation, a caller that finds the object
\* built returns it, and a caller that arrives in between waits
GetEnter(t) ==
  /\ ~crashed /\ th[t].pc = "idle" /\ mod[t].pc = "idle" /\ mod[t].gets < MaxGets
  /\ cache.guard # "constructing"
  /\ IF cache.guard = "none"
     THEN /\ cache' = [cache EXCEPT !.guard = "constructing"]
          /\ mod' = [mod EXCEPT ![t] = [@ EXCEPT !.pc = "get_capacity", !.gets = @ + 1]]
     ELSE /\ mod' = [mod EXCEPT ![t] = [@ EXCEPT !.ref = cache.id, !.gets = @ + 1]]
          /\ UNCHANGED cache
  /\ UNCHANGED <<init_soft_ip_flag, soft_ip_cache_capacity, soft_ip_cache_shardCount,
                 instances, crashed>>
  /\ SingletonFrame /\ NoDispatcherChange

\* the initialiser reads soft_ip_cache_capacity; nothing orders this read
\* with the write in init_soft_ip_cache
GetReadCapacity(t) ==
  /\ ~crashed /\ mod[t].pc = "get_capacity"
  /\ mod' = [mod EXCEPT ![t] = [@ EXCEPT !.pc = "get_construct",
                                          !.capacity = soft_ip_cache_capacity]]
  /\ UNCHANGED <<init_soft_ip_flag, soft_ip_cache_capacity, soft_ip_cache_shardCount,
                 cache, instances, crashed>>
  /\ SingletonFrame /\ NoDispatcherChange

\* the initialiser reads soft_ip_cache_shardCount and runs the constructor
\* ScalableLRUCache(size, shard_count): shard_count 0 stands for
\* std::thread::hardware_concurrency(), and when that is 0 as well the
\* division cache_size_ / shard_count_ ends the process
GetConstruct(t) ==
  /\ ~crashed /\ mod[t].pc = "get_construct"
  /\ \E hardware_concurrency \in 0..MaxShards :
       LET n == IF soft_ip_cache_shardCount > 0 THEN soft_ip_cache_shardCount
                ELSE hardware_concurrency
       IN IF n = 0
          THEN /\ crashed' = TRUE
               /\ UNCHANGED <<cache, instances, mod>>
               /\ NoDispatcherChange
          ELSE /\ cache_size_' = mod[t].capacity
               /\ shard_count_' = n
               /\ shards_' = Constructed'
               /\ hash_map_' = [s \in Shards' |-> [k \in Keys |-> NoEntry]]
               /\ list' = [s \in Shards' |-> <<>>]
               /\ current_size_' = [s \in Shards' |-> 0]
               /\ instances' = instances + 1
               /\ cache' = [guard |-> "built", id |-> instances']
               /\ mod' = [mod EXCEPT ![t] = [@ EXCEPT !.pc = "idle", !.ref = instances',
                                                       !.capacity = 0]]
               /\ UNCHANGED crashed
  /\ listMutex_' = [s \in Shards' |-> 0]
  /\ UNCHANGED <<init_soft_ip_flag, soft_ip_cache_capacity, soft_ip_cache_shardCount,
                 recordPre, capRet, hash, callKeys, maxCalls, heap, th,
                 dangling, uaf, nops, touch, eraseRet, eraseRemoved, returned, live>>

\* module t calls insert, find or erase through the reference it got
ModuleStep(t) == mod[t].pc = "idle" /\ mod[t].ref # 0 /\ Step(t)

NextSingleton ==
  \E t \in Threads :
    \/ \E cap \in 1..MaxCapacity, shardCnt \in 0..MaxShards :
         InitEnter(t, cap, shardCnt)
    \/ InitWriteCapacity(t)
    \/ InitWriteCount(t)
    \/ GetEnter(t)
    \/ GetReadCapacity(t)
    \/ GetConstruct(t)
    \/ ModuleStep(t)

SpecSingleton == InitSingleton /\ [][NextSingleton]_vars

\* ---- ScalableLRUCache::ScalableLRUCache and capacity() ----
\* the constructor is entered with size >= 0 and shard_count >= 1
InitCtor ==
  /\ shard_count_ \in 1..MaxCtorShards
  /\ cache_size_ \in 0..MaxTotal
  /\ shards_ = <<>> /\ capRet = -1 /\ recordPre = FALSE
  /\ hash = [k \in Keys |-> 0]
  /\ callKeys = {}
  /\ maxCalls = 0
  /\ InitShared

\* one turn of the loop: shards_.emplace_back(make_unique<Shard>(i != 0 ? cap : cap + modular))
CtorEmplace ==
  /\ Len(shards_) < shard_count_
  /\ shards_' = Append(shards_, ShardCapacity(Len(shards_)))
  /\ UNCHANGED <<cache_size_, shard_count_, capRet, recordPre, singleton, hash, callKeys, maxCalls,
                 shared, th, crashed, dangling, uaf, nops, touch, eraseRet, eraseRemoved,
                 returned, live>>

\* capacity() on the constructed dispatcher
CapacityCall ==
  /\ Len(shards_) = shard_count_ /\ capRet = -1
  /\ capRet' = capacity
  /\ UNCHANGED <<cache_size_, shard_count_, shards_, recordPre, singleton, hash, callKeys, maxCalls,
                 shared, th, crashed, dangling, uaf, nops, touch, eraseRet, eraseRemoved,
                 returned, live>>

NextCtor == CtorEmplace \/ CapacityCall

SpecCtor == InitCtor /\ [][NextCtor]_vars

\* ---- the claims ----
InFlight(t, op) == th[t].op = op /\ th[t].pc # "idle"
MapCount(s) == Cardinality(KeysInMap(s))

\* C1: the number of keys in a shard's map is at most the shard's capacity
\* whenever no operation is in flight, and exceeds it, by at most one, only
\* while an insert on that shard is in flight.
CapacityBound ==
  \A s \in Shards :
    /\ MapCount(s) <= ShardCapacity(s) + 1
    /\ MapCount(s) > ShardCapacity(s) =>
         \E t \in Threads : InFlight(t, "insert") /\ shard(th[t].key) = s

\* C2: no operation ever reads or writes a recency node after that node was
\* deleted.
NoDanglingNodeAccess == ~uaf

\* C3: whenever no operation is in flight, the keys of a shard's map are
\* exactly the keys of the nodes linked in its recency list, each linked once.
IndexListCorrespondence ==
  Quiescent =>
    \A s \in Shards : /\ KeysInMap(s) = KeysInList(s)
                      /\ Cardinality(KeysInList(s)) = Len(list[s])

\* C4: in a sequential run, an insert of a new key into a full shard (of
\* capacity >= 1) evicts exactly the key whose last successful insert or find
\* is the oldest among the keys present, never the key it inserts, and an
\* insert into a shard that is not full evicts nothing.
LruVictim ==
  \A t \in Threads :
    (th[t].op = "insert" /\ th[t].pc = "idle" /\ th[t].ret = 1
       /\ ShardCapacity(shard(th[t].key)) >= 1) =>
      /\ th[t].evicted = (IF th[t].full THEN {th[t].oldest} ELSE {})
      /\ th[t].key \notin th[t].evicted
      /\ th[t].key \in KeysInMap(shard(th[t].key))
      /\ th[t].evicted \cap KeysInMap(shard(th[t].key)) = {}

\* insert 1, insert 2, find 1, insert 3 on a shard of capacity 2: key 1, which
\* the find promoted, has survived and key 2 was evicted
LruVictimWitness ==
  /\ th[1].op = "insert" /\ th[1].pc = "idle" /\ th[1].ret = 1 /\ th[1].full
  /\ th[1].key = 3 /\ th[1].evicted = {2}
  /\ touch[1] = 3 /\ touch[2] = 2 /\ touch[3] = 4
  /\ ShardCapacity(shard(3)) = 2
  /\ KeysInMap(shard(3)) = {1, 3}

DuplicateInsertChangesNothing ==
  [][\A t \in Threads, k \in Keys, v \in Vals :
       (InsertMap(t, k, v) /\ hash_map_[shard(k)][k] # NoEntry) =>
         /\ th'[t].pc = "idle" /\ th'[t].ret = 0
         /\ UNCHANGED <<hash_map_, list, current_size_, heap>>]_vars

\* an insert of another value for a present key has returned false
DuplicateInsertWitness ==
  \E t \in Threads :
    /\ th[t].op = "insert" /\ th[t].pc = "idle" /\ th[t].ret = 0
    /\ hash_map_[shard(th[t].key)][th[t].key] # NoEntry
    /\ hash_map_[shard(th[t].key)][th[t].key].value_ # th[t].value
    /\ Len(list[shard(th[t].key)]) >= 2
    /\ heap[Head(list[shard(th[t].key)])] = th[t].key

\* C7: a find in flight can always take its next step, whoever holds the
\* list mutex; while another thread holds it, find returns true at once and
\* leaves the recency list alone.
FindNeverWaits ==
  \A t \in Threads :
    (InFlight(t, "find") /\ ~crashed) =>
      /\ ENABLED (FindTryLock(t) \/ FindPromote(t))
      /\ (th[t].pc = "find_try" /\ listMutex_[shard(th[t].key)] # 0) =>
           ENABLED (FindTryLock(t) /\ th'[t].pc = "idle" /\ th'[t].ret = 1
                      /\ list' = list)

\* a find has returned its hit while another thread held the list mutex
FindNeverWaitsWitness ==
  \E t \in Threads, u \in Threads :
    /\ th[t].op = "find" /\ th[t].pc = "idle" /\ th[t].ret = 1
    /\ listMutex_[shard(th[t].key)] = u /\ u # t
    /\ th[u].pc \in {"pf_cs", "ins_append", "erase_cs"}

\* C8: whenever no operation is in flight, size() of a shard is the number of
\* keys in its map.
SizeCountsElements ==
  Quiescent => \A s \in Shards : current_size_[s] = MapCount(s)

\* C9: whenever no operation is in flight, the values returned by the
\* erase(k) calls add up to the number of map entries those calls removed.
EraseReturnsRemoved ==
  Quiescent => \A k \in Keys : eraseRet[k] = eraseRemoved[k]

\* C10: after any sequence of calls on a dispatcher of total capacity N, the
\* shards together hold at most N entries.
GlobalBound ==
  LET Total[i \in 0..shard_count_] ==
        IF i = 0 THEN 0 ELSE Total[i - 1] + MapCount(i - 1)
  IN Quiescent => Total[shard_count_] <= cache_size_

\* C11: once the constructor has returned, shard 0 has capacity
\* floor(total / count) + (total mod count), every other shard has capacity
\* floor(total / count), and capacity() returns the total exactly.
CapacityDistribution ==
  LET q == cache_size_ \div shard_count_
      r == cache_size_ - q * shard_count_
  IN /\ Len(shards_) = shard_count_ =>
          \A i \in 1..shard_count_ : shards_[i] = (IF i = 1 THEN q + r ELSE q)
     /\ capRet # -1 => capRet = cache_size_

\* total capacity 7 on 4 shards: 4, 1, 1, 1, and capacity() has returned 7
CapacityDistributionWitness ==
  /\ cache_size_ = 7 /\ shard_count_ = 4
  /\ shards_ = <<4, 1, 1, 1>> /\ capRet = 7

\* C12: the shard a key is routed to never changes, and every step of an
\* insert, find or erase on key k leaves the map, the recency list and the
\* size counter of every shard other than shard(k) as they were.
RoutingIsolates ==
  [][/\ \A k \in Keys : shard(k)' = shard(k)
     /\ \A t \in Threads :
          Step(t) => \A s \in Shards :
                       s # shard(th'[t].key) =>
                         /\ hash_map_'[s] = hash_map_[s]
                         /\ list'[s] = list[s]
                         /\ current_size_'[s] = current_size_[s]]_vars

\* C13: an insert whose node allocation or map allocation fails ends with
\* the exception leaving the call and with the map, the recency list and the
\* size counter of every shard as they were before the call.
AllocationFailureNoEffect ==
  [][\A t \in Threads, k \in Keys, v \in Vals :
       InsertThrow(t, k, v) =>
         /\ th'[t].pc = "idle" /\ th'[t].ret = 2
         /\ UNCHANGED <<hash_map_, list, current_size_>>]_vars

\* the map allocation has failed in an insert of an absent key into a full
\* shard: the key is absent, nothing was evicted, and the node the insert had
\* allocated is still allocated
AllocationFailureWitness ==
  /\ th[1].op = "insert" /\ th[1].pc = "idle" /\ th[1].ret = 2
  /\ hash_map_[shard(th[1].key)][th[1].key] = NoEntry
  /\ MapCount(shard(th[1].key)) = ShardCapacity(shard(th[1].key))
  /\ MapCount(shard(th[1].key)) = 2
  /\ current_size_[shard(th[1].key)] = 2
  /\ \E n \in Nodes : heap[n] = th[1].key /\ ~inList(n)

\* C14: clear, called while no other call runs, leaves every shard with an
\* empty map, an empty recency list and size() = 0, frees every node that
\* was linked, and a find that follows it misses whatever the key.
ClearEmpties ==
  [][\A t \in Threads :
       /\ Clear(t) =>
            /\ \A s \in Shards : /\ \A k \in Keys : hash_map_'[s][k] = NoEntry
                                  /\ list'[s] = <<>>
                                  /\ current_size_'[s] = 0
                                  /\ \A j \in 1..Len(list[s]) : heap'[list[s][j]] = 0
            /\ th'[t].pc = "idle"
       /\ \A k \in Keys :
            (FindMap(t, k) /\ th[t].op = "clear") =>
              (th'[t].pc = "idle" /\ th'[t].ret = 0)]_vars

\* clear has returned on a dispatcher whose two shards each held a key
ClearWitness ==
  /\ th[1].op = "clear" /\ th[1].pc = "idle" /\ nops = 3
  /\ shard_count_ = 2 /\ shard(1) # shard(2)
  /\ touch[1] # 0 /\ touch[2] # 0
  /\ \A n \in Nodes : heap[n] = 0

\* C15: in a sequential run, erase(k) on a key that is present returns 1 and
\* leaves the map without k and otherwise as it was, the recency list
\* without k's node and otherwise in the order it had, size() of k's shard
\* one less than before and still a count (not wrapped), the other shards'
\* sizes as they were; a find(k) that follows misses.
ErasePresent ==
  [][\A t \in Threads :
       /\ (EraseDecrement(t) /\ th[t].pre # <<>>) =>
            LET k == th[t].key
                s == shard(k)
                preMap == th[t].pre[1]
                preList == th[t].pre[2]
                preSize == th[t].pre[3]
            IN /\ th'[t].pc = "idle" /\ th'[t].ret = 1
               /\ hash_map_' = [preMap EXCEPT ![s][k] = NoEntry]
               /\ list' = [preList EXCEPT ![s] = Without(@, preMap[s][k].listNode_)]
               /\ \A j \in 1..Len(list'[s]) : heap'[list'[s][j]] # k
               /\ heap'[preMap[s][k].listNode_] = 0
               /\ current_size_' = [preSize EXCEPT ![s] = @ - 1]
               /\ current_size_'[s] >= 0
       /\ \A k \in Keys :
            (FindMap(t, k) /\ th[t].op = "erase" /\ th[t].key = k /\ th[t].ret = 1) =>
              (th'[t].pc = "idle" /\ th'[t].ret = 0)]_vars

\* C16: an erase(k) that does not find k in the map returns 0 and leaves the
\* map, the recency list and the size counter of every shard as they were.
EraseMissing ==
  [][\A t \in Threads, k \in Keys :
       (EraseFind(t, k) /\ hash_map_[shard(k)][k] = NoEntry) =>
         /\ th'[t].pc = "idle" /\ th'[t].ret = 0
         /\ UNCHANGED <<hash_map_, list, current_size_, heap>>]_vars

\* an erase of a missing key has returned 0 while the other thread is inside
\* an insert on the other shard, which holds a key
EraseMissingWitness ==
  \E t \in Threads, u \in Threads :
    /\ th[t].op = "erase" /\ th[t].pc = "idle" /\ th[t].ret = 0
    /\ th[u].op = "insert" /\ th[u].pc = "ins_append"
    /\ shard(th[t].key) # shard(th[u].key)
    /\ MapCount(shard(th[u].key)) = 1 /\ current_size_[shard(th[t].key)] = 0
    /\ hash_map_[shard(th[t].key)][th[t].key] = NoEntry

\* C17: from the return of a successful find(k) until the caller's next call,
\* during which the caller holds the handle find filled, k's entry stays in
\* the shard's map.
HandlePinsEntry ==
  \A t \in Threads :
    (th[t].op = "find" /\ th[t].pc = "idle" /\ th[t].ret = 1) =>
      hash_map_[shard(th[t].key)][th[t].key] # NoEntry

\* C18: no reachable state is a dead end for a started operation: while some
\* call is in flight, some thread that is inside a call can take its next
\* step (so that, scheduled fairly, every started call returns).
OperationsRunToCompletion ==
  (\E t \in Threads : th[t].pc # "idle") =>
    \E u \in Threads : th[u].pc # "idle" /\ ENABLED Continue(u)

\* C19: all calls of getSoftIpCache, from either module and in any order
\* with the calls of init_soft_ip_cache, return one and the same dispatcher,
\* the only one ever constructed; so a key one module has inserted (and that
\* was not erased or evicted since) is found by a find of any module.
OneSharedInstance ==
  /\ instances <= 1
  /\ \A t \in Threads :
       mod[t].ref # 0 => (cache.guard = "built" /\ mod[t].ref = cache.id)
  /\ \A t \in Threads, u \in Threads :
       (mod[t].ref # 0 /\ mod[u].ref # 0) => mod[t].ref = mod[u].ref
  /\ \A t \in Threads :
       (th[t].op = "find" /\ th[t].expectLive # 0) =>
         (th[t].ret # 0 /\ th[t].hval = th[t].expectLive)

\* module 2 called getSoftIpCache before any init_soft_ip_cache had written
\* its arguments, module 1 called it after its own init_soft_ip_cache; both
\* hold the same reference, module 1 has inserted key 1 and module 2 has
\* found it
OneSharedInstanceWitness ==
  /\ init_soft_ip_flag = "done" /\ soft_ip_cache_capacity # 0 /\ cache_size_ = 0
  /\ mod[1].inits = 1 /\ mod[2].inits = 0
  /\ mod[1].ref # 0 /\ mod[1].ref = mod[2].ref
  /\ th[1].op = "insert" /\ th[1].key = 1 /\ th[1].pc = "idle" /\ th[1].ret = 1
  /\ th[2].op = "find" /\ th[2].key = 1 /\ th[2].pc = "idle" /\ th[2].ret = 1
  /\ th[2].hval = th[1].value

\* the nodes carrying key k that are linked in the list of k's shard
LinkedWith(ls, hp, k) ==
  {j \in 1..Len(ls[shard(k)]) : hp[ls[shard(k)][j]] = k}

\* C20: an insert(k, v) that added k to the map while the other threads were
\* idle, and that has since shared its time with nothing but calls
\* insert(k, .) of other threads: each of those calls returns false, and when
\* the first call returns, it returns true, the map holds its value v for k,
\* exactly one node carrying k is linked in the list, and no other node
\* carrying k is left allocated.
ConcurrentInsertsOneWinner ==
  [][\A u \in Threads : \A t \in Threads \ {u} :
       LET k == th[u].key
       IN (th[u].op = "insert" /\ th[u].pc # "idle" /\ th[u].rivals >= 0) =>
            /\ (\E v \in Vals : InsertMap(t, k, v)) =>
                 (th'[t].pc = "idle" /\ th'[t].ret = 0)
            /\ (th[u].rivals >= 1 /\ th'[u].pc = "idle") =>
                 /\ th'[u].ret = 1
                 /\ hash_map_'[shard(k)][k].value_ = th[u].value
                 /\ Cardinality(LinkedWith(list', heap', k)) = 1
                 /\ Cardinality({n \in Nodes : heap'[n] = k}) = 1]_vars

\* the node the map of k's shard holds for k (0 when k is absent)
NodeOf(k) == hash_map_[shard(k)][k].listNode_

\* list ls with node n moved to the most recently used end of shard s, the
\* other nodes of every list in the order they had
Promoted(ls, s, n) == [x \in Shards |-> IF x = s THEN Append(Without(ls[x], n), n)
                                        ELSE Without(ls[x], n)]

\* C21: a find(k) that hit and took the list mutex while the node the map
\* holds for k is linked moves that node to the most recently used end and
\* keeps the order of the other nodes; a find(k) that hit and did not get
\* the mutex changes no list and returns true with the value it copied.
PromotionAllOrNothing ==
  [][\A t \in Threads :
       LET k == th[t].key
           s == shard(k)
       IN /\ (FindPromote(t) /\ NodeOf(k) # 0 /\ inList(NodeOf(k))
                /\ heap[NodeOf(k)] = k) =>
               (list' = Promoted(list, s, NodeOf(k)) /\ th'[t].pc = "idle"
                  /\ th'[t].ret = 1)
          /\ (FindTryLock(t) /\ listMutex_[s] # 0) =>
               (list' = list /\ th'[t].pc = "idle" /\ th'[t].ret = 1
                  /\ th'[t].hval # 0)]_vars

\* C22: a find whose found_node was unlinked and deleted by an eviction or
\* an erase after find read it from the map leaves every list as it is once
\* it holds the list mutex, and after every step each node in a list is an
\* allocated node.
NoRelinkOfEvictedNode ==
  [][/\ \A t \in Threads :
          (FindPromote(t) /\ <<"th", t, 0>> \in dangling) => list' = list
     /\ \A s \in Shards : \A j \in 1..Len(list'[s]) : heap'[list'[s][j]] # 0]_vars

\* C23: erase never decrements current_size_ when it is 0, so after every
\* step the counter of every shard has not wrapped (a wrapped value is
\* written as a negative number) and, read as size_t, is not larger than the
\* number of calls begun, which bounds the inserts that have returned true.
SizeNeverUnderflows ==
  [][/\ \A t \in Threads :
          EraseDecrement(t) => current_size_[shard(th[t].key)] # 0
     /\ \A s \in Shards :
          current_size_'[s] >= 0 /\ ~UGt(current_size_'[s], nops')]_vars

====
